---- MODULE Spec2Model ----
(***************************************************************************)
(* Event-registration application: the request handlers of /api/companies, *)
(* /api/events, /api/events/register and the credentials provider, over    *)
(* the spreadsheet store.  A request is a small process: it starts with    *)
(* the checks the handler makes before it touches the store, and then      *)
(* takes one step per awaited store call, so that requests interleave      *)
(* exactly where the handlers await.                                       *)
(*                                                                         *)
(* A cell that is absent from a row (undefined in the handler) is the      *)
(* empty string: every test the handlers make on a cell (!x, x || null,    *)
(* x !== 'false', x === v for a non-empty v) answers the same for both.    *)
(* Requests carry no image, so uploadImage is never called.                *)
(***************************************************************************)
EXTENDS Integers, Sequences, FiniteSets, TLC

VARIABLES
    companies,  \* the "companies" sheet: [exists, rows], header row included
    sheets,     \* company sheets by title: [exists, tables]
    req,        \* the requests in flight, by slot
    sessions,   \* the sessions (JWTs) issued so far
    clock,      \* the last value Date.now() returned
    rowBase     \* the index deleteRow gives the first row of a sheet (0 or 1)

vars == <<companies, sheets, req, sessions, clock, rowBase>>

(***************************************************************************)
(* Bounds of the model.                                                    *)
(***************************************************************************)
MaxRequests == 2      \* requests in flight at once
MaxCompanyRows == 2   \* company POSTs start while fewer data rows exist
MaxTables == 2        \* event POSTs start while a sheet has fewer tables
MaxRegs == 2          \* registers start while a table has fewer rows
MaxTime == 2          \* Date.now() stays within 1..MaxTime

Slots == 1..MaxRequests

(***************************************************************************)
(* Values.                                                                 *)
(***************************************************************************)
SheetTitles == {"A", "B"}
AdminUsername == "admin"
AdminPassword == "adminpw"

NoSess == [type |-> "none", name |-> ""]
AdminSess == [type |-> "admin", name |-> "Admin"]
CompanySess(n) == [type |-> "company", name |-> n]

NoArgs ==
    [id |-> "", name |-> "", username |-> "", password |-> "",
     enabled |-> "undef", type |-> "", company |-> "", event |-> "",
     pname |-> "", phone |-> "", email |-> ""]

Idle ==
    [op |-> "idle", pc |-> "idle", sess |-> NoSess, a |-> NoArgs,
     idx |-> 0, row |-> <<>>, cname |-> "", status |-> 0, out |-> "",
     read |-> FALSE, wrote |-> FALSE, body |-> <<>>]

Free(r) == req[r].pc \in {"idle", "done"}

\* The handler returns NextResponse.json(..., {status: code}).
Done(q, code) ==
    [q EXCEPT !.pc = "done", !.status = code, !.idx = 0, !.row = <<>>]

\* The sessions a request can carry: none, or one that was issued; a scope
\* names the kinds of session its clients send.
Carried(D) == {s \in {NoSess} \cup sessions : s.type \in D.carry}

\* Date.now(): the clock does not go back, and may not have advanced.
Now == {t \in {clock, clock + 1} : t >= 1 /\ t <= MaxTime}

(***************************************************************************)
(* Pure helpers of the handlers.                                           *)
(***************************************************************************)
\* row[j] of the handlers (0-based).
Cell(row, j) == IF j + 1 <= Len(row) THEN row[j + 1] ELSE ""

\* data.slice(1)
Slice1(rows) == IF rows = <<>> THEN <<>> ELSE Tail(rows)

\* rows.findIndex((row) => row[j] === v): 0-based, -1 when no row matches
FindIndex(rows, j, v) ==
    LET hits == {i \in 1..Len(rows) : Cell(rows[i], j) = v}
    IN  IF hits = {} THEN -1
        ELSE (CHOOSE i \in hits : \A k \in hits : i <= k) - 1

\* the password kept as it was sent
NoHash(p) == p

\* bcrypt.hash(password, 10) and bcrypt.compare(password, hash)
Hash(p) == "hash(" \o p \o ")"
Compare(p, h) == h = Hash(p)

\* `company_${Date.now()}`
CompanyId(t) == "company_" \o ToString(t)

\* new Date().toISOString()
IsoDate(t) == "T" \o ToString(t)

\* A field the request body does not carry (undefined in the handler).
Absent == "<absent>"

\* decodeURIComponent on the names the model sends: "%41" is an escaped "A",
\* a lone "%" is malformed (URIError), undefined becomes the text "undefined",
\* anything else has no escape in it.
DecodeThrows(s) == s = "%"
Decode(s) ==
    IF s = "%41" THEN "A" ELSE IF s = Absent THEN "undefined" ELSE s

\* The characters of the texts the model sends as phone or email.
Chars(s) ==
    CASE s = "0123456789" -> <<"0", "1", "2", "3", "4", "5", "6", "7", "8", "9">>
      [] s = "9876543210" -> <<"9", "8", "7", "6", "5", "4", "3", "2", "1", "0">>
      [] s = "12345" -> <<"1", "2", "3", "4", "5">>
      [] s = "a@b.c" -> <<"a", "@", "b", ".", "c">>
      [] s = "d@e.f" -> <<"d", "@", "e", ".", "f">>
      [] s = "a@bc" -> <<"a", "@", "b", "c">>
      [] OTHER -> <<>>

Digits == {"0", "1", "2", "3", "4", "5", "6", "7", "8", "9"}

\* [^\s@]
Plain(ch) == ch \notin {" ", "@"}

\* /^[^\s@]+@[^\s@]+\.[^\s@]+$/.test(email)
EmailOk(email) ==
    LET c == Chars(email)
    IN  \E i \in 1..Len(c), j \in 1..Len(c) :
            /\ 1 < i /\ i + 1 < j /\ j < Len(c)
            /\ c[i] = "@" /\ c[j] = "."
            /\ \A k \in 1..Len(c) : k # i => Plain(c[k])

\* /^\d{10,15}$/.test(phone)
PhoneOk(phone) ==
    LET c == Chars(phone)
    IN  Len(c) >= 10 /\ Len(c) <= 15 /\ \A k \in 1..Len(c) : c[k] \in Digits

CompaniesHeader == <<"ID", "Name", "Username", "Password", "Image", "">>

EventHeaders ==
    <<"Name", "Phone", "Email", "Gender", "College", "Status",
      "National ID", "Registration Date", "Image", "Enabled">>

(***************************************************************************)
(* The session checks of the handlers.                                     *)
(***************************************************************************)
\* the check with the test of the session's type left out
IsSignedIn(s) == s.type # "none"

\* !(!session || session.user.type !== 'admin')
IsAdmin(s) == s.type = "admin"

\* !(!session)
Authenticated(s) == s.type # "none"

\* the check with the comparison of the names left out
OwnsAnyCompany(s, companyName) == s.type \in {"admin", "company"}

\* !(session.user.type !== 'admin' && session.user.name !== companyName)
OwnsCompany(s, companyName) == s.type = "admin" \/ s.name = companyName

(***************************************************************************)
(* The store (lib/sheets).                                                 *)
(***************************************************************************)
\* deleteRow(sheet, index): removes one row; the position of `index` among
\* the rows depends on the index the library gives the first row.
DeleteRow(rows, index) ==
    LET p == index + 1 - rowBase
    IN  IF p \in 1..Len(rows)
        THEN SubSeq(rows, 1, p - 1) \o SubSeq(rows, p + 1, Len(rows))
        ELSE rows

\* appendToSheet(sheet, [row])
AppendToSheet(rows, row) == Append(rows, row)

Init ==
    /\ companies = [exists |-> FALSE, rows |-> <<>>]
    /\ sheets = [n \in SheetTitles |-> [exists |-> FALSE, tables |-> <<>>]]
    /\ req = [r \in Slots |-> Idle]
    /\ sessions = {}
    /\ clock = 0
    /\ rowBase \in {0, 1}

(***************************************************************************)
(* authorize(credentials) of the credentials provider.                     *)
(***************************************************************************)
AuthorizeResult(username, password, type) ==
    IF username = "" \/ password = "" \/ type = "" THEN [out |-> "null", user |-> NoSess]
    ELSE IF type = "admin"
    THEN IF username = AdminUsername /\ password = AdminPassword
         THEN [out |-> "user", user |-> AdminSess]
         ELSE [out |-> "null", user |-> NoSess]
    ELSE IF type = "company"
    THEN IF ~companies.exists THEN [out |-> "error", user |-> NoSess]
         ELSE LET companyData == Slice1(companies.rows)
                  i == FindIndex(companyData, 2, username)
              IN  IF i = -1 THEN [out |-> "null", user |-> NoSess]
                  ELSE LET company == companyData[i + 1]
                           isEnabled == Cell(company, 5) # "false"
                       IN  IF ~isEnabled THEN [out |-> "error", user |-> NoSess]
                           ELSE IF Compare(password, Cell(company, 3))
                           THEN [out |-> "user", user |-> CompanySess(Cell(company, 1))]
                           ELSE [out |-> "null", user |-> NoSess]
    ELSE [out |-> "null", user |-> NoSess]

Authorize(r, D) ==
    \E u \in D.logins, p \in D.loginPasswords, ty \in {"admin", "company"} :
        /\ Free(r)
        /\ LET res == AuthorizeResult(u, p, ty)
               q == [Idle EXCEPT !.op = "authorize", !.pc = "done",
                                 !.a = [NoArgs EXCEPT !.username = u, !.password = p, !.type = ty],
                                 !.out = res.out, !.cname = res.user.name,
                                 !.read = (u # "" /\ p # "" /\ ty = "company")]
           IN  /\ req' = [req EXCEPT ![r] = q]
               /\ sessions' = IF res.out = "user" THEN sessions \cup {res.user} ELSE sessions
        /\ UNCHANGED <<companies, sheets, clock, rowBase>>

(***************************************************************************)
(* /api/companies                                                          *)
(***************************************************************************)
\* the object of a row with the stored password in the place of the image
CompanyViewWithPassword(row) ==
    [id |-> Cell(row, 0), name |-> Cell(row, 1), username |-> Cell(row, 2),
     image |-> Cell(row, 3), enabled |-> Cell(row, 5) # "false"]

\* (row) => ({id: row[0], name: row[1], username: row[2], image: row[4] || null,
\* enabled: row[5] !== 'false'}); null is the empty text here
CompanyView(row) ==
    [id |-> Cell(row, 0), name |-> Cell(row, 1), username |-> Cell(row, 2),
     image |-> Cell(row, 4), enabled |-> Cell(row, 5) # "false"]

\* data.slice(1).map(...): the companies of the body of GET
CompanyViews(data) ==
    [i \in 1..Len(Slice1(data)) |-> CompanyView(Slice1(data)[i])]

\* company: {id, name, username, image: imageUrl} of the body of POST
CreatedCompany(row) ==
    [id |-> Cell(row, 0), name |-> Cell(row, 1), username |-> Cell(row, 2),
     image |-> Cell(row, 4)]

\* message: `Company ${companyName} deleted successfully` of the body of
\* DELETE; the name is the part of the text that varies
DeletedMessage(companyName) == [message |-> companyName]

\* company: {id, name, username, image, enabled: updatedCompany[5] === 'true'}
\* of the body of PATCH
PatchedCompany(updatedCompany) ==
    [id |-> Cell(updatedCompany, 0), name |-> Cell(updatedCompany, 1),
     username |-> Cell(updatedCompany, 2), image |-> Cell(updatedCompany, 4),
     enabled |-> Cell(updatedCompany, 5) = "true"]

\* GET: the session check, then one read of the companies sheet.  The body of
\* an answer other than 200 is {error: ...}, a fixed text, and is left empty.
CompaniesGET(r, D) ==
    \/ \E s \in Carried(D) :
        /\ Free(r)
        /\ LET q == [Idle EXCEPT !.op = "companiesGET", !.sess = s]
           IN  req' = [req EXCEPT ![r] =
                        IF ~IsAdmin(s) THEN Done(q, 401) ELSE [q EXCEPT !.pc = "read"]]
        /\ UNCHANGED <<companies, sheets, sessions, clock, rowBase>>
    \/ /\ req[r].op = "companiesGET" /\ req[r].pc = "read"
       /\ req' = [req EXCEPT ![r] =
                    IF companies.exists
                    THEN Done([@ EXCEPT !.read = TRUE,
                                        !.body = CompanyViews(companies.rows)], 200)
                    ELSE Done([@ EXCEPT !.read = TRUE], 500)]
       /\ UNCHANGED <<companies, sheets, sessions, clock, rowBase>>

\* existingCompanies.some((row) => row[2] === username)
UsernameExists(rows, username) == \E i \in 1..Len(rows) : Cell(rows[i], 2) = username

\* [id, name, username, hashedPassword, imageUrl]
NewCompanyRow(id, name, username, password) ==
    <<id, name, username, Hash(password), "", "">>

CompaniesPOST(r, D) ==
    \/ \E s \in Carried(D), n \in D.names, u \in D.usernames, p \in D.passwords :
        /\ Free(r)
        /\ Len(Slice1(companies.rows)) < MaxCompanyRows
        /\ LET q == [Idle EXCEPT !.op = "companiesPOST", !.sess = s,
                        !.a = [NoArgs EXCEPT !.name = n, !.username = u, !.password = p]]
           IN  req' = [req EXCEPT ![r] =
                        IF ~IsAdmin(s) THEN Done(q, 401)
                        ELSE IF n = "" \/ u = "" \/ p = "" THEN Done(q, 400)
                        ELSE [q EXCEPT !.pc = "ensure"]]
        /\ UNCHANGED <<companies, sheets, sessions, clock, rowBase>>
    \/ \* try { await getSheetData('companies') } catch { create it }
       /\ req[r].op = "companiesPOST" /\ req[r].pc = "ensure"
       /\ req' = [req EXCEPT ![r] =
                    [@ EXCEPT !.read = TRUE,
                              !.pc = IF companies.exists THEN "check" ELSE "create"]]
       /\ UNCHANGED <<companies, sheets, sessions, clock, rowBase>>
    \/ \* await createSheet('companies'): fails when the title is taken
       /\ req[r].op = "companiesPOST" /\ req[r].pc = "create"
       /\ IF companies.exists
          THEN /\ req' = [req EXCEPT ![r] = Done(@, 500)]
               /\ UNCHANGED companies
          ELSE /\ companies' = [exists |-> TRUE, rows |-> <<>>]
               /\ req' = [req EXCEPT ![r] = [@ EXCEPT !.wrote = TRUE, !.pc = "header"]]
       /\ UNCHANGED <<sheets, sessions, clock, rowBase>>
    \/ \* await appendToSheet('companies', [[ID, Name, Username, Password, Image]])
       /\ req[r].op = "companiesPOST" /\ req[r].pc = "header"
       /\ companies' = [companies EXCEPT !.rows = AppendToSheet(@, CompaniesHeader)]
       /\ req' = [req EXCEPT ![r] = [@ EXCEPT !.wrote = TRUE, !.pc = "check"]]
       /\ UNCHANGED <<sheets, sessions, clock, rowBase>>
    \/ \* the username check on a fresh read, then the id and the hash
       /\ req[r].op = "companiesPOST" /\ req[r].pc = "check"
       /\ IF UsernameExists(Slice1(companies.rows), req[r].a.username)
          THEN /\ req' = [req EXCEPT ![r] = Done([@ EXCEPT !.read = TRUE], 400)]
               /\ UNCHANGED clock
          ELSE \E t \in Now :
                /\ clock' = t
                /\ req' = [req EXCEPT ![r] =
                            [@ EXCEPT !.read = TRUE, !.pc = "append",
                                      !.row = NewCompanyRow(CompanyId(t), req[r].a.name,
                                                            req[r].a.username,
                                                            req[r].a.password)]]
       /\ UNCHANGED <<companies, sheets, sessions, rowBase>>
    \/ \* await appendToSheet('companies', [[id, name, username, hash, image]])
       /\ req[r].op = "companiesPOST" /\ req[r].pc = "append"
       /\ companies' = [companies EXCEPT !.rows = AppendToSheet(@, req[r].row)]
       /\ req' = [req EXCEPT ![r] = [@ EXCEPT !.wrote = TRUE, !.pc = "mksheet"]]
       /\ UNCHANGED <<sheets, sessions, clock, rowBase>>
    \/ \* await createSheet(name): fails when the title is taken
       /\ req[r].op = "companiesPOST" /\ req[r].pc = "mksheet"
       /\ LET n == req[r].a.name
          IN  IF sheets[n].exists
              THEN /\ req' = [req EXCEPT ![r] = Done(@, 500)]
                   /\ UNCHANGED sheets
              ELSE /\ sheets' = [sheets EXCEPT ![n] = [exists |-> TRUE, tables |-> <<>>]]
                   /\ req' = [req EXCEPT ![r] =
                                Done([@ EXCEPT !.body = <<CreatedCompany(req[r].row)>>], 200)]
       /\ UNCHANGED <<companies, sessions, clock, rowBase>>

\* the index DELETE hands to deleteRow, with the header row left out of it
DeleteIndexNoHeader(companyIndex) == companyIndex

\* companyIndex + 1, the index DELETE hands to deleteRow
DeleteIndex(companyIndex) == companyIndex + 1

CompaniesDELETE(r, D) ==
    \/ \E s \in Carried(D), id \in D.ids :
        /\ Free(r)
        /\ LET q == [Idle EXCEPT !.op = "companiesDELETE", !.sess = s,
                        !.a = [NoArgs EXCEPT !.id = id]]
           IN  req' = [req EXCEPT ![r] =
                        IF ~IsAdmin(s) THEN Done(q, 401)
                        ELSE IF id = "" THEN Done(q, 400)
                        ELSE [q EXCEPT !.pc = "find"]]
        /\ UNCHANGED <<companies, sheets, sessions, clock, rowBase>>
    \/ \* const companyIndex = companies.findIndex((row) => row[0] === id)
       /\ req[r].op = "companiesDELETE" /\ req[r].pc = "find"
       /\ LET companyIndex == FindIndex(Slice1(companies.rows), 0, req[r].a.id)
          IN  req' = [req EXCEPT ![r] =
                        IF ~companies.exists THEN Done([@ EXCEPT !.read = TRUE], 500)
                        ELSE IF companyIndex = -1 THEN Done([@ EXCEPT !.read = TRUE], 404)
                        ELSE [@ EXCEPT !.read = TRUE, !.pc = "del", !.idx = companyIndex,
                                       !.cname = Cell(Slice1(companies.rows)[companyIndex + 1], 1)]]
       /\ UNCHANGED <<companies, sheets, sessions, clock, rowBase>>
    \/ \* await deleteRow('companies', companyIndex + 1)
       /\ req[r].op = "companiesDELETE" /\ req[r].pc = "del"
       /\ companies' = [companies EXCEPT !.rows = DeleteRow(@, DeleteIndex(req[r].idx))]
       /\ req' = [req EXCEPT ![r] =
                    Done([@ EXCEPT !.wrote = TRUE,
                                   !.body = <<DeletedMessage(req[r].cname)>>], 200)]
       /\ UNCHANGED <<sheets, sessions, clock, rowBase>>

\* updatedCompany: the row with the supplied fields written over it
UpdatedCompany(row, a) ==
    <<Cell(row, 0),
      IF a.name # "" THEN a.name ELSE Cell(row, 1),
      IF a.username # "" THEN a.username ELSE Cell(row, 2),
      IF a.password # "" THEN Hash(a.password) ELSE Cell(row, 3),
      Cell(row, 4),
      IF a.enabled # "undef" THEN a.enabled ELSE Cell(row, 5)>>

\* username && username !== row[2] && companies.some(row[2] === username && row[0] !== id)
PatchUsernameTaken(rows, companyIndex, a) ==
    /\ a.username # ""
    /\ a.username # Cell(rows[companyIndex + 1], 2)
    /\ \E i \in 1..Len(rows) : Cell(rows[i], 2) = a.username /\ Cell(rows[i], 0) # a.id

\* companyIndex + 2, the index PATCH hands to deleteRow
PatchDeleteIndex(companyIndex) == companyIndex + 2

CompaniesPATCH(r, D) ==
    \/ \E s \in Carried(D), id \in D.ids, f \in D.patches :
        /\ Free(r)
        /\ Len(Slice1(companies.rows)) <= MaxCompanyRows
        /\ LET q == [Idle EXCEPT !.op = "companiesPATCH", !.sess = s,
                        !.a = [NoArgs EXCEPT !.id = id, !.name = f.name,
                                  !.username = f.username, !.password = f.password,
                                  !.enabled = f.enabled]]
           IN  req' = [req EXCEPT ![r] =
                        IF ~IsAdmin(s) THEN Done(q, 401)
                        ELSE IF id = "" THEN Done(q, 400)
                        ELSE [q EXCEPT !.pc = "find"]]
        /\ UNCHANGED <<companies, sheets, sessions, clock, rowBase>>
    \/ \* the lookup, the username check and the updated row, on one read
       /\ req[r].op = "companiesPATCH" /\ req[r].pc = "find"
       /\ LET rows == Slice1(companies.rows)
              companyIndex == FindIndex(rows, 0, req[r].a.id)
          IN  req' = [req EXCEPT ![r] =
                        IF ~companies.exists THEN Done([@ EXCEPT !.read = TRUE], 500)
                        ELSE IF companyIndex = -1 THEN Done([@ EXCEPT !.read = TRUE], 404)
                        ELSE IF PatchUsernameTaken(rows, companyIndex, @.a)
                        THEN Done([@ EXCEPT !.read = TRUE], 400)
                        ELSE [@ EXCEPT !.read = TRUE, !.pc = "del", !.idx = companyIndex,
                                       !.row = UpdatedCompany(rows[companyIndex + 1], req[r].a)]]
       /\ UNCHANGED <<companies, sheets, sessions, clock, rowBase>>
    \/ \* await deleteRow('companies', companyIndex + 2)
       /\ req[r].op = "companiesPATCH" /\ req[r].pc = "del"
       /\ companies' = [companies EXCEPT !.rows = DeleteRow(@, PatchDeleteIndex(req[r].idx))]
       /\ req' = [req EXCEPT ![r] = [@ EXCEPT !.wrote = TRUE, !.pc = "append"]]
       /\ UNCHANGED <<sheets, sessions, clock, rowBase>>
    \/ \* await appendToSheet('companies', [updatedCompany])
       /\ req[r].op = "companiesPATCH" /\ req[r].pc = "append"
       /\ companies' = [companies EXCEPT !.rows = AppendToSheet(@, req[r].row)]
       /\ req' = [req EXCEPT ![r] =
                    Done([@ EXCEPT !.wrote = TRUE,
                                   !.body = <<PatchedCompany(req[r].row)>>], 200)]
       /\ UNCHANGED <<sheets, sessions, clock, rowBase>>

(***************************************************************************)
(* Event tables of a company sheet (lib/sheets).  A sheet holds its tables *)
(* one after the other: a row with the table's name, the header row, then  *)
(* the table's rows.                                                       *)
(***************************************************************************)
SheetExists(n) == n \in SheetTitles /\ sheets[n].exists

Tables(n) == IF SheetExists(n) THEN sheets[n].tables ELSE <<>>

\* the first table of the sheet with that name, 0 when there is none
TableIndex(n, e) ==
    LET hits == {i \in 1..Len(Tables(n)) : Tables(n)[i].name = e}
    IN  IF hits = {} THEN 0 ELSE CHOOSE i \in hits : \A k \in hits : i <= k

\* getTableData(sheet, table): the header row and the rows; [] when absent
GetTableData(n, e) ==
    IF TableIndex(n, e) = 0 THEN <<>> ELSE Tables(n)[TableIndex(n, e)].rows

\* createTable(sheet, table, headers)
CreateTable(tables, e, headers) == Append(tables, [name |-> e, rows |-> <<headers>>])

\* updateTableData(sheet, table, rowIndex, row): rowIndex counts from the header
UpdateTableData(rows, rowIndex, row) ==
    IF rowIndex + 1 <= Len(rows) THEN [rows EXCEPT ![rowIndex + 1] = row]
    ELSE Append(rows, row)

\* addToTable(sheet, table, row)
AddToTable(rows, row) == Append(rows, row)

\* deleteTable(sheet, table)
DeleteTable(tables, i) == SubSeq(tables, 1, i - 1) \o SubSeq(tables, i + 1, Len(tables))

\* the sheet with the rows of its table i replaced
WithRows(n, i, rows) == [sheets EXCEPT ![n].tables[i].rows = rows]

\* getSheetData(sheet) of a company sheet: every table in turn, as a row
\* holding the table's name, then the header row, then the table's rows
RECURSIVE Flatten(_)
Flatten(tables) ==
    IF tables = <<>> THEN <<>>
    ELSE <<<<Head(tables).name>>>> \o Head(tables).rows \o Flatten(Tail(tables))

SheetData(n) == Flatten(Tables(n))

(***************************************************************************)
(* /api/events                                                             *)
(***************************************************************************)
\* the row after the headers with the Enabled cell 'false'
FirstRowDisabled == <<"", "", "", "", "", "", "", "", "", "false">>

\* firstRow: Array(headers.length).fill(''), Image '' and Enabled 'true'
FirstRow == <<"", "", "", "", "", "", "", "", "", "true">>

\* headers.indexOf(h), 0-based, -1 when absent
IndexOf(headers, h) ==
    LET hits == {i \in 1..Len(headers) : headers[i] = h}
    IN  IF hits = {} THEN -1 ELSE (CHOOSE i \in hits : \A k \in hits : i <= k) - 1

\* row[j] = v on a copy of the row (cells in between are empty)
SetCell(row, j, v) ==
    [i \in 1..(IF j + 1 > Len(row) THEN j + 1 ELSE Len(row)) |->
        IF i = j + 1 THEN v ELSE IF i <= Len(row) THEN row[i] ELSE ""]

\* the checks with no test for a session
EventsGateOpen(s, companyName, missing) ==
    IF missing THEN 400
    ELSE IF s.type # "none" /\ ~OwnsCompany(s, companyName) THEN 403
    ELSE 0

\* the checks every /api/events handler makes before the store is touched
EventsGate(s, companyName, missing) ==
    IF ~Authenticated(s) THEN 401
    ELSE IF missing THEN 400
    ELSE IF ~OwnsCompany(s, companyName) THEN 403
    ELSE 0

\* name.startsWith('ID'), on the event names the model sends
StartsWithID(name) == name \in {"ID1", "ID"}

\* data[i] of the handlers (0-based), [] when there is no such row
RowAt(data, i) == IF i + 1 <= Len(data) THEN data[i + 1] ELSE <<>>

\* the event GET builds from the row i (0-based) that holds a table's name
EventAt(data, i) ==
    LET headers == RowAt(data, i + 1)
        imageIndex == IndexOf(headers, "Image")
        enabledIndex == IndexOf(headers, "Enabled")
    IN  [id |-> data[i + 1][1],
         name |-> data[i + 1][1],
         image |-> IF imageIndex # -1 THEN Cell(RowAt(data, i + 2), imageIndex) ELSE "",
         enabled |-> ~(enabledIndex # -1 /\ Cell(RowAt(data, i + 2), enabledIndex) = "false"),
         registrations |-> 0]

\* the loop over data: a row of one non-empty cell that does not start with
\* 'ID' is taken for a table's name
RECURSIVE ScanEvents(_, _)
ScanEvents(data, i) ==
    IF i >= Len(data) THEN <<>>
    ELSE IF Len(data[i + 1]) = 1 /\ data[i + 1][1] # "" /\ ~StartsWithID(data[i + 1][1])
    THEN <<EventAt(data, i)>> \o ScanEvents(data, i + 1)
    ELSE ScanEvents(data, i + 1)

\* Math.max(0, eventData.length - 1)
Registrations(eventData) == IF Len(eventData) - 1 > 0 THEN Len(eventData) - 1 ELSE 0

EventsGET(r, D) ==
    \/ \E s \in Carried(D), c \in D.companies :
        /\ Free(r)
        /\ LET q == [Idle EXCEPT !.op = "eventsGET", !.sess = s,
                        !.a = [NoArgs EXCEPT !.company = c], !.cname = Decode(c)]
               gate == IF Authenticated(s) /\ c # "" /\ DecodeThrows(c) THEN 500
                       ELSE EventsGate(s, Decode(c), c = "")
           IN  req' = [req EXCEPT ![r] =
                        IF gate # 0 THEN Done(q, gate) ELSE [q EXCEPT !.pc = "read"]]
        /\ UNCHANGED <<companies, sheets, sessions, clock, rowBase>>
    \/ \* const data = await getSheetData(companyName), and the loop over it
       /\ req[r].op = "eventsGET" /\ req[r].pc = "read"
       /\ LET events == ScanEvents(SheetData(req[r].cname), 0)
          IN  req' = [req EXCEPT ![r] =
                        IF ~SheetExists(req[r].cname) THEN Done([@ EXCEPT !.read = TRUE], 500)
                        ELSE IF events = <<>>
                        THEN Done([@ EXCEPT !.read = TRUE, !.body = events], 200)
                        ELSE [@ EXCEPT !.read = TRUE, !.body = events,
                                       !.pc = "count", !.idx = 1]]
       /\ UNCHANGED <<companies, sheets, sessions, clock, rowBase>>
    \/ \* for (const event of events): await getTableData(companyName, event.id)
       /\ req[r].op = "eventsGET" /\ req[r].pc = "count"
       /\ LET k == req[r].idx
              eventData == GetTableData(req[r].cname, req[r].body[k].id)
              counted == [req[r].body EXCEPT ![k].registrations = Registrations(eventData)]
          IN  req' = [req EXCEPT ![r] =
                        IF k = Len(counted) THEN Done([@ EXCEPT !.body = counted], 200)
                        ELSE [@ EXCEPT !.body = counted, !.idx = k + 1]]
       /\ UNCHANGED <<companies, sheets, sessions, clock, rowBase>>

EventsPOST(r, D) ==
    \/ \E s \in Carried(D), c \in D.companies, e \in D.events :
        /\ Free(r)
        /\ Len(Tables(c)) < MaxTables
        /\ LET q == [Idle EXCEPT !.op = "eventsPOST", !.sess = s,
                        !.a = [NoArgs EXCEPT !.company = c, !.event = e], !.cname = c]
               gate == EventsGate(s, c, c = "" \/ e = "")
           IN  req' = [req EXCEPT ![r] =
                        IF gate # 0 THEN Done(q, gate) ELSE [q EXCEPT !.pc = "create"]]
        /\ UNCHANGED <<companies, sheets, sessions, clock, rowBase>>
    \/ \* await createTable(companyName, eventName, headers)
       /\ req[r].op = "eventsPOST" /\ req[r].pc = "create"
       /\ LET n == req[r].cname
          IN  IF ~SheetExists(n)
              THEN /\ req' = [req EXCEPT ![r] = Done(@, 500)]
                   /\ UNCHANGED sheets
              ELSE /\ sheets' = [sheets EXCEPT ![n].tables =
                                    CreateTable(@, req[r].a.event, EventHeaders)]
                   /\ req' = [req EXCEPT ![r] = [@ EXCEPT !.wrote = TRUE, !.pc = "meta"]]
       /\ UNCHANGED <<companies, sessions, clock, rowBase>>
    \/ \* await updateTableData(companyName, eventName, 1, firstRow)
       /\ req[r].op = "eventsPOST" /\ req[r].pc = "meta"
       /\ LET n == req[r].cname
              i == TableIndex(n, req[r].a.event)
          IN  IF i = 0
              THEN /\ req' = [req EXCEPT ![r] = Done(@, 500)]
                   /\ UNCHANGED sheets
              ELSE /\ sheets' = WithRows(n, i, UpdateTableData(Tables(n)[i].rows, 1, FirstRow))
                   /\ req' = [req EXCEPT ![r] = Done(@, 200)]
       /\ UNCHANGED <<companies, sessions, clock, rowBase>>

EventsDELETE(r, D) ==
    \/ \E s \in Carried(D), c \in D.companies, e \in D.events :
        /\ Free(r)
        /\ LET q == [Idle EXCEPT !.op = "eventsDELETE", !.sess = s,
                        !.a = [NoArgs EXCEPT !.company = c, !.event = e], !.cname = c]
               gate == EventsGate(s, c, c = "" \/ e = "")
           IN  req' = [req EXCEPT ![r] =
                        IF gate # 0 THEN Done(q, gate) ELSE [q EXCEPT !.pc = "del"]]
        /\ UNCHANGED <<companies, sheets, sessions, clock, rowBase>>
    \/ \* await deleteTable(companyName, eventName)
       /\ req[r].op = "eventsDELETE" /\ req[r].pc = "del"
       /\ LET n == req[r].cname
              i == TableIndex(n, req[r].a.event)
          IN  IF i = 0
              THEN /\ req' = [req EXCEPT ![r] = Done(@, 500)]
                   /\ UNCHANGED sheets
              ELSE /\ sheets' = [sheets EXCEPT ![n].tables = DeleteTable(@, i)]
                   /\ req' = [req EXCEPT ![r] = Done([@ EXCEPT !.wrote = TRUE], 200)]
       /\ UNCHANGED <<companies, sessions, clock, rowBase>>

\* firstRow of PATCH: the row after the headers with the Enabled cell written.
\* Every table is created with the Enabled header, so the column is found.
PatchedFirstRow(tableData, enabled) ==
    LET headers == tableData[1]
        firstRow == IF Len(tableData) > 1 THEN tableData[2]
                    ELSE [i \in 1..Len(headers) |-> ""]
        enabledIndex == IndexOf(headers, "Enabled")
    IN  IF enabled # "undef" /\ enabledIndex # -1
        THEN SetCell(firstRow, enabledIndex, enabled)
        ELSE firstRow

EventsPATCH(r, D) ==
    \/ \E s \in Carried(D), c \in D.companies, e \in D.events, en \in D.eventEnabled :
        /\ Free(r)
        /\ LET q == [Idle EXCEPT !.op = "eventsPATCH", !.sess = s,
                        !.a = [NoArgs EXCEPT !.company = c, !.event = e, !.enabled = en],
                        !.cname = c]
               gate == EventsGate(s, c, c = "" \/ e = "")
           IN  req' = [req EXCEPT ![r] =
                        IF gate # 0 THEN Done(q, gate) ELSE [q EXCEPT !.pc = "read"]]
        /\ UNCHANGED <<companies, sheets, sessions, clock, rowBase>>
    \/ \* const tableData = await getTableData(companyName, eventName)
       /\ req[r].op = "eventsPATCH" /\ req[r].pc = "read"
       /\ LET tableData == GetTableData(req[r].cname, req[r].a.event)
          IN  req' = [req EXCEPT ![r] =
                        IF ~SheetExists(@.cname) THEN Done([@ EXCEPT !.read = TRUE], 500)
                        ELSE IF Len(tableData) = 0 THEN Done([@ EXCEPT !.read = TRUE], 404)
                        ELSE [@ EXCEPT !.read = TRUE, !.pc = "write",
                                       !.row = PatchedFirstRow(tableData, req[r].a.enabled)]]
       /\ UNCHANGED <<companies, sheets, sessions, clock, rowBase>>
    \/ \* await updateTableData(companyName, eventName, 1, firstRow)
       /\ req[r].op = "eventsPATCH" /\ req[r].pc = "write"
       /\ LET n == req[r].cname
              i == TableIndex(n, req[r].a.event)
          IN  IF i = 0
              THEN /\ req' = [req EXCEPT ![r] = Done(@, 500)]
                   /\ UNCHANGED sheets
              ELSE /\ sheets' = WithRows(n, i, UpdateTableData(Tables(n)[i].rows, 1, req[r].row))
                   /\ req' = [req EXCEPT ![r] = Done([@ EXCEPT !.wrote = TRUE], 200)]
       /\ UNCHANGED <<companies, sessions, clock, rowBase>>

(***************************************************************************)
(* /api/events/register                                                    *)
(***************************************************************************)
\* the fields of the form the model does not vary
Gender == "male"
College == "college"
Status == "student"
NationalId == "29901010000000"

\* the row with the phone and the email in each other's column
RegistrationRowSwapped(a, registrationDate) ==
    <<a.pname, a.email, a.phone, Gender, College, Status, NationalId,
      registrationDate, "">>

\* the row handed to addToTable
RegistrationRow(a, registrationDate) ==
    <<a.pname, a.phone, a.email, Gender, College, Status, NationalId,
      registrationDate, "">>

\* registrationData.find((row) => row[2] === email || row[1] === phone)
AlreadyRegistered(tableData, email, phone) ==
    \E i \in 2..Len(tableData) :
        Cell(tableData[i], 2) = email \/ Cell(tableData[i], 1) = phone

\* tableData.length > 1 && tableData[1].length > 0 && last cell === 'false'
EventDisabled(tableData) ==
    /\ Len(tableData) > 1
    /\ Len(tableData[2]) > 0
    /\ tableData[2][Len(tableData[2])] = "false"

\* company[5] === 'false' for the first row whose name is companyName
\* (rows: the companies sheet without its first row)
CompanyRowIndex(rows, companyName) == FindIndex(rows, 1, companyName)

\* the validation of the body: 0 when it passes
RegisterValidation(a) ==
    IF DecodeThrows(a.company) THEN 500
    ELSE IF Decode(a.company) = "" \/ a.event = "" \/ a.pname = ""
            \/ a.phone = "" \/ a.email = "" \/ Gender = "" \/ College = ""
            \/ Status = "" \/ NationalId = "" THEN 400
    ELSE IF ~EmailOk(a.email) THEN 400
    ELSE IF ~PhoneOk(a.phone) THEN 400
    ELSE 0

Register(r, D) ==
    \/ \E c \in D.regCompanies, e \in D.events, pn \in D.pnames,
          ph \in D.phones, em \in D.emails :
        /\ Free(r)
        /\ Len(GetTableData(Decode(c), e)) < 2 + MaxRegs
        /\ LET a == [NoArgs EXCEPT !.company = c, !.event = e, !.pname = pn,
                                   !.phone = ph, !.email = em]
               q == [Idle EXCEPT !.op = "register", !.a = a, !.cname = Decode(c)]
           IN  req' = [req EXCEPT ![r] =
                        IF RegisterValidation(a) # 0 THEN Done(q, RegisterValidation(a))
                        ELSE [q EXCEPT !.pc = "company"]]
        /\ UNCHANGED <<companies, sheets, sessions, clock, rowBase>>
    \/ \* const companiesData = await getSheetData('companies')
       /\ req[r].op = "register" /\ req[r].pc = "company"
       /\ LET rows == Slice1(companies.rows)
              i == CompanyRowIndex(rows, req[r].cname)
          IN  req' = [req EXCEPT ![r] =
                        IF ~companies.exists \/ i = -1
                        THEN Done([@ EXCEPT !.read = TRUE], 404)
                        ELSE IF Cell(rows[i + 1], 5) = "false"
                        THEN Done([@ EXCEPT !.read = TRUE], 403)
                        ELSE [@ EXCEPT !.read = TRUE, !.pc = "sheet"]]
       /\ UNCHANGED <<companies, sheets, sessions, clock, rowBase>>
    \/ \* const sheetData = await getSheetData(companyName)
       /\ req[r].op = "register" /\ req[r].pc = "sheet"
       /\ req' = [req EXCEPT ![r] =
                    IF Len(Tables(@.cname)) = 0 THEN Done([@ EXCEPT !.read = TRUE], 404)
                    ELSE [@ EXCEPT !.read = TRUE, !.pc = "table"]]
       /\ UNCHANGED <<companies, sheets, sessions, clock, rowBase>>
    \/ \* const tableData = await getTableData(companyName, eventName)
       /\ req[r].op = "register" /\ req[r].pc = "table"
       /\ LET tableData == GetTableData(req[r].cname, req[r].a.event)
          IN  IF Len(tableData) = 0
              THEN req' = [req EXCEPT ![r] = Done(@, 404)] /\ UNCHANGED clock
              ELSE IF EventDisabled(tableData)
              THEN req' = [req EXCEPT ![r] = Done(@, 403)] /\ UNCHANGED clock
              ELSE IF AlreadyRegistered(tableData, req[r].a.email, req[r].a.phone)
              THEN req' = [req EXCEPT ![r] = Done(@, 400)] /\ UNCHANGED clock
              ELSE \E t \in Now :
                    /\ clock' = t
                    /\ req' = [req EXCEPT ![r] =
                                [@ EXCEPT !.pc = "add",
                                          !.row = RegistrationRow(req[r].a, IsoDate(t))]]
       /\ UNCHANGED <<companies, sheets, sessions, rowBase>>
    \/ \* await addToTable(companyName, eventName, [...])
       /\ req[r].op = "register" /\ req[r].pc = "add"
       /\ LET n == req[r].cname
              i == TableIndex(n, req[r].a.event)
          IN  IF i = 0
              THEN /\ req' = [req EXCEPT ![r] = Done(@, 404)]
                   /\ UNCHANGED sheets
              ELSE /\ sheets' = WithRows(n, i, AddToTable(Tables(n)[i].rows, req[r].row))
                   /\ req' = [req EXCEPT ![r] = Done([@ EXCEPT !.wrote = TRUE], 200)]
       /\ UNCHANGED <<companies, sessions, clock, rowBase>>

(***************************************************************************)
(* Specifications.  Each states the requests that run and draws their      *)
(* inputs from a scope; slot 1 is the administrator's browser, the other   *)
(* slots are further clients running at the same time.                     *)
(***************************************************************************)
NoPatch == [name |-> "", username |-> "", password |-> "", enabled |-> "undef"]

CompanyIds == {CompanyId(t) : t \in 1..MaxTime}

Others == Slots \ {1}

\* Company administration: create, update, delete and log in, with a second
\* administrator creating a company at the same time.
ScopeCompany ==
    [carry |-> {"admin"},
     logins |-> {AdminUsername, "u1"}, loginPasswords |-> {AdminPassword, "p1"},
     names |-> {"A"}, usernames |-> {"u1"}, passwords |-> {"p1"},
     ids |-> CompanyIds,
     patches |-> {[NoPatch EXCEPT !.enabled = "false"]}]

NextCompany ==
    \/ Authorize(1, ScopeCompany)
    \/ CompaniesPOST(1, ScopeCompany)
    \/ CompaniesPATCH(1, ScopeCompany)
    \/ CompaniesDELETE(1, ScopeCompany)
    \/ \E r \in Others : CompaniesPOST(r, ScopeCompany)

SpecCompany == Init /\ [][NextCompany]_vars

\* Tenancy: one administrator creating, renaming and deleting companies and
\* creating and deleting their events, one request at a time.
ScopeTenancy ==
    [carry |-> {"admin"},
     logins |-> {AdminUsername}, loginPasswords |-> {AdminPassword},
     names |-> {"A", "B"}, usernames |-> {"u1", "u2"}, passwords |-> {"p1"},
     ids |-> CompanyIds,
     patches |-> {[NoPatch EXCEPT !.name = "B"]},
     companies |-> {"A", "B"}, events |-> {"e1"}]

NextTenancy ==
    \/ Authorize(1, ScopeTenancy)
    \/ CompaniesPOST(1, ScopeTenancy)
    \/ CompaniesPATCH(1, ScopeTenancy)
    \/ CompaniesDELETE(1, ScopeTenancy)
    \/ EventsPOST(1, ScopeTenancy)
    \/ EventsDELETE(1, ScopeTenancy)

SpecTenancy == Init /\ [][NextTenancy]_vars


\* Registration: the administrator sets up a company and an event and turns
\* the event off, while the public form registers, two requests at a time.
ScopeRegister ==
    [carry |-> {"admin"},
     logins |-> {AdminUsername}, loginPasswords |-> {AdminPassword},
     names |-> {"A"}, usernames |-> {"u1"}, passwords |-> {"p1"},
     companies |-> {"A"}, events |-> {"e1"}, eventEnabled |-> {"false"},
     regCompanies |-> {"A"}, pnames |-> {"n"},
     phones |-> {"0123456789", "9876543210"}, emails |-> {"a@b.c", "d@e.f"}]

NextRegister ==
    \/ Authorize(1, ScopeRegister)
    \/ CompaniesPOST(1, ScopeRegister)
    \/ EventsPOST(1, ScopeRegister)
    \/ EventsPATCH(1, ScopeRegister)
    \/ \E r \in Slots : Register(r, ScopeRegister)

SpecRegister == Init /\ [][NextRegister]_vars

\* Disabling a company: the administrator sets up a company and an event and
\* turns the company off, while the public form registers.
ScopeDisable ==
    [carry |-> {"admin"},
     logins |-> {AdminUsername}, loginPasswords |-> {AdminPassword},
     names |-> {"A"}, usernames |-> {"u1"}, passwords |-> {"p1"},
     ids |-> CompanyIds,
     patches |-> {[NoPatch EXCEPT !.enabled = "false"], [NoPatch EXCEPT !.enabled = "true"]},
     companies |-> {"A"}, events |-> {"e1"},
     regCompanies |-> {"A"}, pnames |-> {"n"},
     phones |-> {"0123456789"}, emails |-> {"a@b.c"}]

NextDisable ==
    \/ Authorize(1, ScopeDisable)
    \/ CompaniesPOST(1, ScopeDisable)
    \/ CompaniesPATCH(1, ScopeDisable)
    \/ EventsPOST(1, ScopeDisable)
    \/ \E r \in Others : Register(r, ScopeDisable)

SpecDisable == Init /\ [][NextDisable]_vars

\* The public form: the administrator sets up a company and an event while
\* one client of the form (slot 2) registers, with a plain and with an
\* escaped company name.
ScopeForm ==
    [carry |-> {"admin"},
     logins |-> {AdminUsername}, loginPasswords |-> {AdminPassword},
     names |-> {"A"}, usernames |-> {"u1"}, passwords |-> {"p1"},
     companies |-> {"A"}, events |-> {"e1"},
     regCompanies |-> {"A", "%41"}, pnames |-> {"n"},
     phones |-> {"0123456789", "9876543210"}, emails |-> {"a@b.c", "d@e.f"}]

NextForm ==
    \/ Authorize(1, ScopeForm)
    \/ CompaniesPOST(1, ScopeForm)
    \/ EventsPOST(1, ScopeForm)
    \/ Register(2, ScopeForm)

SpecForm == Init /\ [][NextForm]_vars

\* Secrets: the administrator creates a company, changes its password and
\* deletes it (slot 1) while a second administrator lists the companies.
ScopeSecrets ==
    [carry |-> {"admin"},
     logins |-> {AdminUsername}, loginPasswords |-> {AdminPassword},
     names |-> {"A"}, usernames |-> {"u1"}, passwords |-> {"p1"},
     ids |-> CompanyIds,
     patches |-> {[NoPatch EXCEPT !.password = "p2"]}]

NextSecrets ==
    \/ Authorize(1, ScopeSecrets)
    \/ CompaniesPOST(1, ScopeSecrets)
    \/ CompaniesPATCH(1, ScopeSecrets)
    \/ CompaniesDELETE(1, ScopeSecrets)
    \/ CompaniesGET(2, ScopeSecrets)

SpecSecrets == Init /\ [][NextSecrets]_vars

\* Passwords: the administrator creates a company, changes its password and
\* disables it (slot 1) while the company logs in with the old and with the
\* new password (slot 2).
ScopePassword ==
    [carry |-> {"admin"},
     logins |-> {AdminUsername, "u1"},
     loginPasswords |-> {AdminPassword, "p1", "p2"},
     names |-> {"A"}, usernames |-> {"u1"}, passwords |-> {"p1"},
     ids |-> CompanyIds,
     patches |-> {[NoPatch EXCEPT !.password = "p2"],
                  [NoPatch EXCEPT !.password = "p1"],
                  [NoPatch EXCEPT !.enabled = "false"]}]

NextPassword ==
    \/ Authorize(1, ScopePassword)
    \/ CompaniesPOST(1, ScopePassword)
    \/ CompaniesPATCH(1, ScopePassword)
    \/ Authorize(2, ScopePassword)

SpecPassword == Init /\ [][NextPassword]_vars

\* Enabling: the administrator creates and deletes events (slot 1) while a
\* second client (slot 2) switches them on and off, lists them and registers.
ScopeEnable ==
    [carry |-> {"admin"},
     logins |-> {AdminUsername}, loginPasswords |-> {AdminPassword},
     names |-> {"A"}, usernames |-> {"u1"}, passwords |-> {"p1"},
     companies |-> {"A"}, events |-> {"e1"},
     eventEnabled |-> {"true", "false", "undef"},
     regCompanies |-> {"A"}, pnames |-> {"n"},
     phones |-> {"0123456789"}, emails |-> {"a@b.c"}]

NextEnable ==
    \/ Authorize(1, ScopeEnable)
    \/ CompaniesPOST(1, ScopeEnable)
    \/ EventsPOST(1, ScopeEnable)
    \/ EventsDELETE(1, ScopeEnable)
    \/ EventsPATCH(2, ScopeEnable)
    \/ EventsGET(2, ScopeEnable)
    \/ Register(2, ScopeEnable)

SpecEnable == Init /\ [][NextEnable]_vars

\* Validation of the form: the client of the form (slot 2) sends bodies with
\* a field absent or empty, a malformed email or a short phone, next to
\* well-formed ones.
ScopeValidate ==
    [carry |-> {"admin"},
     logins |-> {AdminUsername}, loginPasswords |-> {AdminPassword},
     names |-> {"A"}, usernames |-> {"u1"}, passwords |-> {"p1"},
     companies |-> {"A"}, events |-> {"e1", ""},
     regCompanies |-> {"A", "", Absent}, pnames |-> {"n", ""},
     phones |-> {"0123456789", "12345"}, emails |-> {"a@b.c", "a@bc"}]

NextValidate ==
    \/ Authorize(1, ScopeValidate)
    \/ CompaniesPOST(1, ScopeValidate)
    \/ EventsPOST(1, ScopeValidate)
    \/ Register(2, ScopeValidate)

SpecValidate == Init /\ [][NextValidate]_vars

\* Access: one client at a time, signed in as the administrator, as a company
\* or not at all, sends every kind of request.
ScopeAccess ==
    [carry |-> {"none", "admin", "company"},
     logins |-> {AdminUsername, "u1"}, loginPasswords |-> {AdminPassword, "p1"},
     names |-> {"A"}, usernames |-> {"u1"}, passwords |-> {"p1"},
     ids |-> CompanyIds,
     patches |-> {[NoPatch EXCEPT !.enabled = "false"]},
     companies |-> {"A", "B"}, events |-> {"e1"},
     eventEnabled |-> {"false"},
     regCompanies |-> {"A"}, pnames |-> {"n"},
     phones |-> {"0123456789"}, emails |-> {"a@b.c"}]

NextAccess ==
    \/ Authorize(1, ScopeAccess)
    \/ CompaniesGET(1, ScopeAccess)
    \/ CompaniesPOST(1, ScopeAccess)
    \/ CompaniesDELETE(1, ScopeAccess)
    \/ CompaniesPATCH(1, ScopeAccess)
    \/ EventsGET(1, ScopeAccess)
    \/ EventsPOST(1, ScopeAccess)
    \/ EventsDELETE(1, ScopeAccess)
    \/ EventsPATCH(1, ScopeAccess)
    \/ Register(1, ScopeAccess)

SpecAccess == Init /\ [][NextAccess]_vars

\* The company endpoints: one client at a time, signed in as the
\* administrator, as a company or not at all, sends requests to /api/companies.
ScopeAdminOnly ==
    [carry |-> {"none", "admin", "company"},
     logins |-> {AdminUsername, "u1"}, loginPasswords |-> {AdminPassword, "p1"},
     names |-> {"A"}, usernames |-> {"u1", ""}, passwords |-> {"p1"},
     ids |-> CompanyIds \cup {""},
     patches |-> {[NoPatch EXCEPT !.enabled = "false"]}]

NextAdminOnly ==
    \/ Authorize(1, ScopeAdminOnly)
    \/ CompaniesGET(1, ScopeAdminOnly)
    \/ CompaniesPOST(1, ScopeAdminOnly)
    \/ CompaniesDELETE(1, ScopeAdminOnly)
    \/ CompaniesPATCH(1, ScopeAdminOnly)

SpecAdminOnly == Init /\ [][NextAdminOnly]_vars

\* The event endpoints: one client at a time, signed in as the administrator,
\* as a company or not at all, sends requests to /api/events, also with the
\* name of another company, an empty name or a name that does not decode.
ScopeIsolation ==
    [carry |-> {"none", "admin", "company"},
     logins |-> {AdminUsername, "u1"}, loginPasswords |-> {AdminPassword, "p1"},
     names |-> {"A", "B"}, usernames |-> {"u1"}, passwords |-> {"p1"},
     companies |-> {"A", "B", "", "%"}, events |-> {"e1", ""},
     eventEnabled |-> {"false"}]

NextIsolation ==
    \/ Authorize(1, ScopeIsolation)
    \/ CompaniesPOST(1, ScopeIsolation)
    \/ EventsGET(1, ScopeIsolation)
    \/ EventsPOST(1, ScopeIsolation)
    \/ EventsDELETE(1, ScopeIsolation)
    \/ EventsPATCH(1, ScopeIsolation)

SpecIsolation == Init /\ [][NextIsolation]_vars

\* Listing: the administrator sets up a company, creates and deletes events,
\* one of them with a name that starts with 'ID', and lists them, while one
\* client of the form (slot 2) registers.
ScopeListing ==
    [carry |-> {"admin"},
     logins |-> {AdminUsername}, loginPasswords |-> {AdminPassword},
     names |-> {"A"}, usernames |-> {"u1"}, passwords |-> {"p1"},
     companies |-> {"A"}, events |-> {"e1", "ID1"},
     regCompanies |-> {"A"}, pnames |-> {"n"},
     phones |-> {"0123456789"}, emails |-> {"a@b.c"}]

NextListing ==
    \/ Authorize(1, ScopeListing)
    \/ CompaniesPOST(1, ScopeListing)
    \/ EventsPOST(1, ScopeListing)
    \/ EventsDELETE(1, ScopeListing)
    \/ EventsGET(1, ScopeListing)
    \/ Register(2, ScopeListing)

SpecListing == Init /\ [][NextListing]_vars

\* Deleting: the administrator creates two companies and an event, and
\* deletes companies by id, one request at a time.
ScopeDelete ==
    [carry |-> {"admin"},
     logins |-> {AdminUsername}, loginPasswords |-> {AdminPassword},
     names |-> {"A", "B"}, usernames |-> {"u1", "u2"}, passwords |-> {"p1"},
     ids |-> CompanyIds,
     companies |-> {"A"}, events |-> {"e1"}]

NextDelete ==
    \/ Authorize(1, ScopeDelete)
    \/ CompaniesPOST(1, ScopeDelete)
    \/ CompaniesDELETE(1, ScopeDelete)
    \/ EventsPOST(1, ScopeDelete)

SpecDelete == Init /\ [][NextDelete]_vars

\* Updating: the administrator creates a company and disables it, with two
\* PATCH requests in flight at a time.
ScopePatch ==
    [carry |-> {"admin"},
     logins |-> {AdminUsername}, loginPasswords |-> {AdminPassword},
     names |-> {"A"}, usernames |-> {"u1"}, passwords |-> {"p1"},
     ids |-> CompanyIds,
     patches |-> {[NoPatch EXCEPT !.enabled = "false"]}]

NextPatch ==
    \/ Authorize(1, ScopePatch)
    \/ CompaniesPOST(1, ScopePatch)
    \/ \E r \in Slots : CompaniesPATCH(r, ScopePatch)

SpecPatch == Init /\ [][NextPatch]_vars

(***************************************************************************)
(* Claims.                                                                 *)
(***************************************************************************)
\* the positions of the company rows of the companies sheet (not its header)
CompanyRowsAt == {i \in 1..Len(companies.rows) : companies.rows[i] # CompaniesHeader}

\* C1: company usernames are unique: in every reachable state no two company
\* rows of the companies sheet carry the same username.
C1_UsernamesUnique ==
    \A i \in CompanyRowsAt, j \in CompanyRowsAt :
        i # j => Cell(companies.rows[i], 2) # Cell(companies.rows[j], 2)

\* a step in which authorize runs in slot r
AuthorizeStep(r) == Free(r) /\ req'[r].op = "authorize" /\ req'[r] # req[r]

\* some company row with this username has the enabled cell 'false'
DisabledCompanyHas(username) ==
    \E i \in CompanyRowsAt :
        /\ Cell(companies.rows[i], 2) = username
        /\ Cell(companies.rows[i], 5) = "false"

\* C10: a disabled company cannot log in: authorize with type 'company' and
\* the username of a company whose enabled cell is 'false' returns no user.
\* Stated for the row numbering under which PATCH deletes the row it read
\* (deleteRow counting from 1), so that a failure is not one of PATCH's index.
C10_DisabledCannotLogIn ==
    [][\A r \in Slots :
        (/\ rowBase = 1
         /\ AuthorizeStep(r)
         /\ req'[r].a.type = "company"
         /\ DisabledCompanyHas(req'[r].a.username))
        => req'[r].out # "user"]_vars

\* the companies (by id) with a row whose name resolves to the sheet of this title
CompaniesNamed(n) ==
    {Cell(companies.rows[i], 0) : i \in {k \in CompanyRowsAt : Cell(companies.rows[k], 1) = n}}

\* C8: an event belongs to exactly one company: there are never two company
\* rows (of two companies, told apart by their ids) whose name resolves to the
\* sheet holding an event table.
C8_EventInOneCompany ==
    \A n \in SheetTitles :
        Len(Tables(n)) > 0 => Cardinality(CompaniesNamed(n)) <= 1

\* the registration rows of a table: the rows after the header that carry an
\* email (the row of the event's image and Enabled cell carries none)
RegistrationsAt(rows) == {i \in 2..Len(rows) : Cell(rows[i], 2) # ""}

\* C2: registrations are unique per event by email or phone: within one
\* event's table no two registration rows have the same email, and no two
\* have the same phone.
C2_RegistrationsUnique ==
    \A n \in SheetTitles : \A k \in 1..Len(Tables(n)) :
        LET rows == Tables(n)[k].rows
        IN  \A i \in RegistrationsAt(rows), j \in RegistrationsAt(rows) :
                i # j => /\ Cell(rows[i], 2) # Cell(rows[j], 2)
                         /\ Cell(rows[i], 1) # Cell(rows[j], 1)

\* the step of a register request in which its row is appended
AddStep(r) ==
    /\ req[r].op = "register" /\ req[r].pc = "add"
    /\ req'[r].pc = "done" /\ req'[r].status = 200

\* some company row with this name has the enabled cell 'false'
CompanyDisabled(n) ==
    \E i \in CompanyRowsAt :
        /\ Cell(companies.rows[i], 1) = n
        /\ Cell(companies.rows[i], 5) = "false"

\* C3: disabled companies reject new registrations: no registration row is
\* appended to an event table of a company while that company is disabled.
\* Stated for the row numbering under which PATCH deletes the row it read
\* (deleteRow counting from 1), so that a failure is not one of PATCH's index.
C3_NoRowWhileCompanyDisabled ==
    [][\A r \in Slots :
        (rowBase = 1 /\ AddStep(r)) => ~CompanyDisabled(req[r].cname)]_vars

\* the Enabled cell of the event's table is 'false'
EventIsDisabled(n, e) ==
    /\ TableIndex(n, e) # 0
    /\ Len(GetTableData(n, e)) > 1
    /\ Cell(GetTableData(n, e)[2], 9) = "false"

\* C4: disabled events reject new registrations: no registration row is
\* appended to an event's table while that event is disabled.
C4_NoRowWhileEventDisabled ==
    [][\A r \in Slots :
        AddStep(r) => ~EventIsDisabled(req[r].cname, req[r].a.event)]_vars

\* the row a register request with these fields appends, whatever its date
IsRegistrationOf(row, a) ==
    /\ Len(row) = 9
    /\ row[1] = a.pname /\ row[2] = a.phone /\ row[3] = a.email
    /\ row[4] = Gender /\ row[5] = College /\ row[6] = Status
    /\ row[7] = NationalId
    /\ row[8] \in {IsoDate(t) : t \in 1..MaxTime}
    /\ row[9] = ""

\* a register request answers 200 in this step
RegisterSucceeds(r) ==
    /\ req[r].op = "register" /\ req[r].pc # "done"
    /\ req'[r].pc = "done" /\ req'[r].status = 200

\* C9: a registration belongs to exactly one event: a successful register
\* request appends exactly one row (name, phone, email, gender, college,
\* status, national ID, timestamp, empty image) to the table of the named
\* event of the named company, and leaves the companies sheet, every other
\* table and every existing row of that table unchanged.
C9_RegisterAppendsOneRow ==
    [][\A r \in Slots :
        RegisterSucceeds(r) =>
            LET n == Decode(req[r].a.company)
                i == TableIndex(n, req[r].a.event)
            IN  /\ i # 0
                /\ companies' = companies
                /\ \A m \in SheetTitles \ {n} : sheets'[m] = sheets[m]
                /\ sheets'[n].exists = sheets[n].exists
                /\ Len(sheets'[n].tables) = Len(sheets[n].tables)
                /\ \A k \in 1..Len(sheets[n].tables) :
                        k # i => sheets'[n].tables[k] = sheets[n].tables[k]
                /\ sheets'[n].tables[i].name = req[r].a.event
                /\ LET old == sheets[n].tables[i].rows
                       new == sheets'[n].tables[i].rows
                   IN  /\ Len(new) = Len(old) + 1
                       /\ SubSeq(new, 1, Len(old)) = old
                       /\ IsRegistrationOf(new[Len(new)], req[r].a)]_vars

\* a register request was answered 200 and its row is in the event's table
C9_Witness ==
    \E r \in Slots :
        /\ req[r].op = "register" /\ req[r].pc = "done" /\ req[r].status = 200
        /\ req[r].a.company = "%41"
        /\ \E i \in 2..Len(GetTableData("A", req[r].a.event)) :
                IsRegistrationOf(GetTableData("A", req[r].a.event)[i], req[r].a)

\* the requests of /api/companies and of /api/events
CompanyOps == {"companiesGET", "companiesPOST", "companiesDELETE", "companiesPATCH"}
EventOps == {"eventsGET", "eventsPOST", "eventsDELETE", "eventsPATCH"}

\* slot r takes a step of a request, and the step writes to the store
Writes(r) == req'[r] # req[r] /\ (companies' # companies \/ sheets' # sheets)

\* C5 (as the code has it): every insert, update and delete of a row is gated
\* by a session check, except the append of the public registration form: a
\* step that writes to the store is a step of a request that carries an
\* authenticated session, or the addToTable of a register request.
C5_WritesGatedButRegister ==
    [][\A r \in Slots :
        Writes(r) => \/ req'[r].sess.type # "none"
                     \/ req[r].op = "register" /\ req[r].pc = "add"]_vars

\* a request with a session has written to the store, and so has a register
\* request, which carries none
C5_Witness ==
    /\ \E r \in Slots :
            /\ req[r].op \in CompanyOps \cup EventOps
            /\ req[r].wrote /\ req[r].sess.type # "none"
    /\ \E n \in SheetTitles : \E k \in 1..Len(Tables(n)) :
            RegistrationsAt(Tables(n)[k].rows) # {}

\* C5 (as stated): no row is inserted, updated or deleted on behalf of a
\* request that carries no authenticated session.
C5_AllWritesGated ==
    [][\A r \in Slots : Writes(r) => req'[r].sess.type # "none"]_vars

\* slot r takes a step of a request of /api/companies whose session is not
\* the administrator's
NotAdminStep(r) ==
    /\ req'[r] # req[r]
    /\ req'[r].op \in CompanyOps
    /\ req'[r].sess.type # "admin"

\* C6: the company endpoints are admin-only: a GET, POST, DELETE or PATCH of
\* /api/companies without a session, or with a session whose type is not
\* 'admin', is answered 401 at once and reads and writes nothing.
C6_CompaniesAdminOnly ==
    [][\A r \in Slots :
        NotAdminStep(r) =>
            /\ Free(r)
            /\ req'[r].pc = "done" /\ req'[r].status = 401
            /\ ~req'[r].read /\ ~req'[r].wrote
            /\ companies' = companies /\ sheets' = sheets]_vars

\* a company session was turned away by /api/companies while a company exists
C6_Witness ==
    \E r \in Slots :
        /\ req[r].op \in CompanyOps /\ req[r].sess.type = "company"
        /\ req[r].pc = "done" /\ req[r].status = 401
        /\ Len(companies.rows) > 1

\* slot r takes the first step of a request of /api/events
EventsStart(r) == Free(r) /\ req'[r] # req[r] /\ req'[r].op \in EventOps

\* the request names no company, or (but for GET) no event
Malformed(q) == q.a.company = "" \/ (q.op # "eventsGET" /\ q.a.event = "")

\* a company session whose name is not the one the request names
OtherCompany(q) == q.sess.type = "company" /\ q.sess.name # q.cname

\* the request is answered with this status and has touched nothing
Refused(r, code) ==
    /\ req'[r].pc = "done" /\ req'[r].status = code
    /\ ~req'[r].read /\ ~req'[r].wrote
    /\ companies' = companies /\ sheets' = sheets

\* C7 (as the code has it): a request of /api/events with no session is
\* answered 401; one with a company session whose name differs from the
\* requested company name is answered 400 when it names no company or no
\* event, 500 when it is a GET whose company name does not decode, and 403
\* otherwise; in every one of these cases the store is neither read nor
\* changed.
C7_TenantIsolation ==
    [][\A r \in Slots :
        EventsStart(r) =>
            /\ req'[r].sess.type = "none" => Refused(r, 401)
            /\ OtherCompany(req'[r]) =>
                    Refused(r, IF Malformed(req'[r]) THEN 400
                               ELSE IF req'[r].op = "eventsGET"
                                       /\ DecodeThrows(req'[r].a.company) THEN 500
                               ELSE 403)]_vars

\* a company that has an event was answered 403 for a request on the events
\* of another company
C7_Witness ==
    /\ \E r \in Slots :
            /\ req[r].op \in EventOps /\ req[r].pc = "done" /\ req[r].status = 403
            /\ req[r].sess.type = "company" /\ req[r].sess.name # req[r].cname
            /\ Len(Tables(req[r].sess.name)) > 0

\* C7 (as stated): with no session the answer is 401, with a company session
\* whose name differs from the requested company name it is 403, and the
\* store is unchanged.
C7_Always403 ==
    [][\A r \in Slots :
        EventsStart(r) =>
            /\ req'[r].sess.type = "none" => Refused(r, 401)
            /\ OtherCompany(req'[r]) => Refused(r, 403)]_vars
\* the step in which a GET of /api/events reads the sheet and builds its list
ListStep(r) ==
    /\ req[r].op = "eventsGET" /\ req[r].pc = "read"
    /\ req'[r].pc \in {"count", "done"} /\ req'[r].status \in {0, 200}

\* the names of the events of a list, and of the tables of a sheet, in order
NamesOf(events) == [k \in 1..Len(events) |-> events[k].name]

\* C11: GET /api/events?company=C returns all events of the company: the list
\* built from the sheet holds exactly the events that were created for C and
\* not deleted, each once, whatever the event's name.
C11_ListsExactlyTheEvents ==
    [][\A r \in Slots :
        ListStep(r) => NamesOf(req'[r].body) = NamesOf(Tables(req[r].cname))]_vars

\* the step in which a GET of /api/events counts the registrations of an event
CountStep(r) == req[r].op = "eventsGET" /\ req[r].pc = "count" /\ req'[r] # req[r]

\* C12: the registration count is derived from the registrant rows: the
\* 'registrations' number GET /api/events gives an event is the number of
\* registration rows of its table (0 for an event that was just created).
C12_CountIsRegistrantRows ==
    [][\A r \in Slots :
        CountStep(r) =>
            LET k == req[r].idx
                rows == GetTableData(req[r].cname, req[r].body[k].id)
            IN  req'[r].body[k].registrations = Cardinality(RegistrationsAt(rows))]_vars

\* the rows with the one at position p taken out
Without(rows, p) == SubSeq(rows, 1, p - 1) \o SubSeq(rows, p + 1, Len(rows))

\* a DELETE of /api/companies is answered in this step
DeleteAnswers(r, code) ==
    /\ req[r].op = "companiesDELETE" /\ req[r].pc # "done"
    /\ req'[r].pc = "done" /\ req'[r].status = code

RowsWithId(rows, id) == {p \in 2..Len(rows) : Cell(rows[p], 0) = id}

\* a PATCH of /api/companies is answered 200 in this step
PatchSucceeds(r) ==
    /\ req[r].op = "companiesPATCH" /\ req[r].pc = "append"
    /\ req'[r].pc = "done" /\ req'[r].status = 200

\* every request in the slots is a PATCH of /api/companies
OnlyPatches == \A q \in Slots : req[q].op \in {"idle", "companiesPATCH"}

\* C14: a successful PATCH /api/companies for id X leaves the companies sheet
\* with exactly one row for X, carrying the supplied enabled flag, also when
\* PATCH requests interleave.  Stated for the row numbering under which
\* companyIndex + 2 is the row PATCH found (deleteRow counting from 1), so
\* that a failure is not one of PATCH's index.
C14_PatchKeepsOneRow ==
    [][\A r \in Slots :
        (rowBase = 1 /\ OnlyPatches /\ PatchSucceeds(r)) =>
            /\ Cardinality(RowsWithId(companies'.rows, req[r].a.id)) = 1
            /\ \A p \in RowsWithId(companies'.rows, req[r].a.id) :
                    Cell(companies'.rows[p], 5) = req[r].a.enabled]_vars

\* the body of a register request fails the validation the form describes:
\* a field absent or empty, an email not of the form x@y.z, or a phone that
\* is not 10 to 15 digits
FailsValidation(a) ==
    \/ a.company \in {"", Absent} \/ a.event = "" \/ a.pname = ""
    \/ a.phone = "" \/ a.email = ""
    \/ ~EmailOk(a.email) \/ ~PhoneOk(a.phone)

\* C15: a register request whose body fails validation is answered 400
\* at once, and has neither read nor written the store.
C15_InvalidBodyIs400 ==
    \A r \in Slots :
        (req[r].op = "register" /\ FailsValidation(req[r].a)) =>
            /\ req[r].pc = "done" /\ req[r].status = 400
            /\ ~req[r].read /\ ~req[r].wrote

\* what GET /api/events would list for the sheet of company c (the sheet is
\* read once)
Listed(c) == CHOOSE events \in {ScanEvents(data, 0) : data \in {SheetData(c)}} : TRUE

\* the event e of company c is open: every entry GET lists under the name e
\* has enabled true, and register does not find it disabled
EventOpen(c, e) ==
    /\ \A ev \in {Listed(c)[k] : k \in 1..Len(Listed(c))} : ev.name = e => ev.enabled
    /\ \A tableData \in {GetTableData(c, e)} : ~EventDisabled(tableData)

\* the step in which POST /api/events answers 200 for the event e of c
CreatedStep(r, c, e) ==
    /\ req[r].op = "eventsPOST" /\ req[r].pc = "meta"
    /\ req[r].cname = c /\ req[r].a.event = e
    /\ req'[r].pc = "done" /\ req'[r].status = 200

\* the step in which a PATCH of /api/events writes the row of the event e of c
\* with the Enabled cell 'false'
PatchWritesFalse(r, c, e) ==
    /\ req[r].op = "eventsPATCH" /\ req[r].pc = "write"
    /\ req[r].cname = c /\ req[r].a.event = e
    /\ Cell(req[r].row, IndexOf(EventHeaders, "Enabled")) = "false"
    /\ req'[r].pc = "done" /\ req'[r].status = 200

\* C16: an event created by POST /api/events is enabled by default: when the
\* POST answers 200 the event is open (GET reports enabled true and register
\* does not answer 403 'Registration has ended'), and an open event stays
\* open in every step but the one in which a PATCH writes enabled false.
C16_EnabledUntilPatchedFalse ==
    [][\A c \in SheetTitles, e \in ScopeEnable.events :
        /\ (\E r \in Slots : CreatedStep(r, c, e)) => EventOpen(c, e)'
        /\ (sheets' # sheets /\ EventOpen(c, e) /\ ~EventOpen(c, e)') =>
                \E r \in Slots : PatchWritesFalse(r, c, e)]_vars

\* a person registered for an event that POST /api/events answered 200 for,
\* and a GET listed it as enabled
C16_Witness ==
    /\ req[1].op = "eventsPOST" /\ req[1].pc = "done" /\ req[1].status = 200
    /\ req[2].op = "register" /\ req[2].pc = "done" /\ req[2].status = 200
    /\ req[2].cname = req[1].cname /\ req[2].a.event = req[1].a.event
    /\ EventOpen(req[1].cname, req[1].a.event)

\* the passwords the administrator sends, and their hashes
Secrets ==
    LET sent == ScopeSecrets.passwords \cup {f.password : f \in ScopeSecrets.patches}
    IN  (sent \ {""}) \cup {Hash(p) : p \in sent \ {""}}

\* the texts of an object of a response body
Texts(object) == {object[f] : f \in DOMAIN object \ {"enabled"}}

\* C17: passwords are never returned: no object in the response body of GET,
\* POST, PATCH or DELETE /api/companies holds a password the administrator
\* sent or the hash that was stored for it.
C17_NoPasswordInBody ==
    \A r \in Slots :
        req[r].op \in CompanyOps =>
            \A k \in 1..Len(req[r].body) : Texts(req[r].body[k]) \cap Secrets = {}

\* GET listed a company whose password had been changed by a PATCH that
\* answered 200 with the company in its body
C17_Witness ==
    /\ req[1].op = "companiesPATCH" /\ req[1].status = 200 /\ Len(req[1].body) = 1
    /\ req[2].op = "companiesGET" /\ req[2].status = 200
    /\ \E k \in 1..Len(req[2].body) :
            /\ req[2].body[k].id = req[1].body[1].id
            /\ \E i \in 1..Len(companies.rows) :
                    /\ Cell(companies.rows[i], 0) = req[2].body[k].id
                    /\ Cell(companies.rows[i], 3) = Hash("p2")

\* the step in which POST or PATCH /api/companies, sent with a password,
\* appends its row
StoresPassword(r) ==
    /\ req[r].op \in {"companiesPOST", "companiesPATCH"} /\ req[r].pc = "append"
    /\ req[r].a.password # ""
    /\ req'[r].pc # "append"

\* the administrator's last request (slot 1) set the password p of a company
\* and answered 200 with the company in its body
PasswordSet(p) ==
    /\ req[1].op \in {"companiesPOST", "companiesPATCH"}
    /\ req[1].pc = "done" /\ req[1].status = 200
    /\ req[1].a.password = p /\ p # ""

\* no row of the companies sheet with the username u is disabled
EnabledCompany(u) ==
    \A i \in 1..Len(Slice1(companies.rows)) :
        Cell(Slice1(companies.rows)[i], 2) = u =>
            Cell(Slice1(companies.rows)[i], 5) # "false"

\* the step in which slot r logs in as a company with the username u
CompanyLogin(r, u) ==
    /\ Free(r) /\ req'[r] # req[r]
    /\ req'[r].op = "authorize" /\ req'[r].a.type = "company"
    /\ req'[r].a.username = u

====
